---- MODULE Spec2Model ----
(***************************************************************************)
(* Model of the job scraper: JobScraper (src/job_scraper.py) and the       *)
(* export tab of the dashboard (src/streamlit_app.py).                     *)
(*                                                                         *)
(* Text is a sequence of one-character strings, so that str.strip,         *)
(* str.lower and the substring test are computed and not assumed.  The     *)
(* texts of a search URL are sequences of lexemes (a word, a digit or a    *)
(* delimiter), which is the grain at which quote_plus acts.                *)
(***************************************************************************)
EXTENDS Integers, Sequences, FiniteSets, TLC

VARIABLES
    search_query,       \* scrape_jobs / build_search_url parameter
    location,           \* scrape_jobs / build_search_url parameter
    unfamiliar_skills,  \* scrape_jobs / filter_jobs_by_skills parameter
    max_pages,          \* scrape_jobs parameter
    page,               \* loop variable of scrape_jobs, parameter of build_search_url
    url,                \* the URL built last
    job_elements,       \* listing fragments of the page being processed
    idx,                \* position of the inner loop in job_elements
    page_jobs,          \* records of the page being processed
    all_jobs,           \* the accumulator of scrape_jobs
    jobs,               \* filter_jobs_by_skills parameter
    filtered_jobs,      \* result of filter_jobs_by_skills / scrape_jobs
    job_element,        \* extract_job_info parameter
    job_info,           \* extract_job_info result
    jobs_data,          \* st.session_state.jobs_data
    df_data,            \* the export rows
    parsed,             \* the export rows read back
    pc,                 \* position of the flow of control
    log                 \* history: requests, outcomes, appends and waits, in order

vars == <<search_query, location, unfamiliar_skills, max_pages, page, url,
          job_elements, idx, page_jobs, all_jobs, jobs, filtered_jobs,
          job_element, job_info, jobs_data, df_data, parsed, pc, log>>

scrapeVars == <<max_pages, job_elements, idx, page_jobs, all_jobs, log>>
urlVars == <<search_query, location, page, url>>
filterVars == <<unfamiliar_skills, jobs, filtered_jobs>>
extractVars == <<job_element, job_info>>
exportVars == <<jobs_data, df_data, parsed>>

----------------------------------------------------------------------------
(* Bounds of the model *)

MaxPages == 3       \* largest max_pages of a modelled run
MaxList == 2        \* longest list of jobs, of skills, of unfamiliar skills drawn
MaxItems == 4       \* longest detail list drawn, in items
MaxText == 3        \* longest query / location text drawn, in lexemes

----------------------------------------------------------------------------
(* Optional values: None is the empty sequence, Some(x) the one-element one *)

None == <<>>
Some(x) == <<x>>
IsSome(o) == o # None
Get(o) == o[1]
Opt(S) == {None} \cup {Some(x) : x \in S}

SeqsUpTo(S, n) == UNION {[1..k -> S] : k \in 0..n}

----------------------------------------------------------------------------
(* Text *)

Whitespace == {" ", "\t", "\n"}

\* str.strip(): leading and trailing whitespace removed, the inside kept
RECURSIVE LStrip(_)
LStrip(s) == IF s # <<>> /\ Head(s) \in Whitespace THEN LStrip(Tail(s)) ELSE s

RECURSIVE RStrip(_)
RStrip(s) ==
    IF s # <<>> /\ s[Len(s)] \in Whitespace THEN RStrip(SubSeq(s, 1, Len(s) - 1)) ELSE s

Strip(s) == RStrip(LStrip(s))

UpperChars == <<"A", "B", "C", "D", "E", "F", "G", "H", "I", "J", "K", "L", "M",
                "N", "O", "P", "Q", "R", "S", "T", "U", "V", "W", "X", "Y", "Z">>

LowerChars == <<"a", "b", "c", "d", "e", "f", "g", "h", "i", "j", "k", "l", "m",
                "n", "o", "p", "q", "r", "s", "t", "u", "v", "w", "x", "y", "z">>

LowerChar(c) ==
    IF \E i \in DOMAIN UpperChars : UpperChars[i] = c
    THEN LowerChars[CHOOSE i \in DOMAIN UpperChars : UpperChars[i] = c]
    ELSE c

\* str.lower()
Lower(s) == [i \in DOMAIN s |-> LowerChar(s[i])]

\* a in b, for texts (and for sequences of lexemes)
IsSubstr(a, b) == \E i \in 0..(Len(b) - Len(a)) : SubSeq(b, i + 1, i + Len(a)) = a

\* number of (possibly overlapping) occurrences of a in b
Occurrences(a, b) ==
    Cardinality({i \in 0..(Len(b) - Len(a)) : SubSeq(b, i + 1, i + Len(a)) = a})

\* the sentinel "N/A"
NA == <<"N", "/", "A">>

----------------------------------------------------------------------------
(* build_search_url *)

base_url == <<"https://www.timesjobs.com/candidate/job-search.html">>

DigitLexeme == <<"0", "1", "2", "3", "4", "5", "6", "7", "8", "9">>

\* str(page), for page >= 0
RECURSIVE IntToStr(_)
IntToStr(n) ==
    IF n < 10 THEN <<DigitLexeme[n + 1]>>
    ELSE IntToStr(n \div 10) \o <<DigitLexeme[(n % 10) + 1]>>

Reserved == (" " :> "+") @@ ("=" :> "%3D") @@ ("&" :> "%26") @@ ("%" :> "%25")
            @@ ("+" :> "%2B") @@ ("?" :> "%3F") @@ ("/" :> "%2F")

QuoteNothing(s) == s

\* urllib.parse.quote_plus: a space becomes "+", a reserved character its
\* percent escape, letters and digits stay
QuotePlus(s) == [i \in DOMAIN s |-> IF s[i] \in DOMAIN Reserved THEN Reserved[s[i]] ELSE s[i]]

\* the params dict, in insertion order
Params(q, loc, p) ==
    << <<"from", <<"submit">> >>,
       <<"luceneResultSize", <<"2", "5">> >>,
       <<"txtKeywords", q>>,
       <<"postWeek", <<"6", "0">> >>,
       <<"searchType", <<"personalizedSearch">> >>,
       <<"actualTxtKeywords", q>>,
       <<"searchBy", <<"0">> >>,
       <<"rdoOperator", <<"OR">> >>,
       <<"pDate", <<"I">> >>,
       <<"sequence", IntToStr(p)>>,
       <<"startPage", <<"1">> >> >>
    \o (IF loc # <<>> THEN << <<"txtLocation", loc>> >> ELSE <<>>)

\* '&'.join(f"{key}={quote_plus(str(value))}" ...)
RECURSIVE JoinParams(_)
JoinParams(ps) ==
    IF ps = <<>> THEN <<>>
    ELSE <<ps[1][1], "=">> \o QuotePlus(ps[1][2])
         \o (IF Len(ps) > 1 THEN <<"&">> \o JoinParams(Tail(ps)) ELSE <<>>)

build_search_url(q, loc, p) == base_url \o <<"?">> \o JoinParams(Params(q, loc, p))

----------------------------------------------------------------------------
(* extract_job_info *)

(* A listing fragment, by what the lookups of extract_job_info find in it:  *)
(*   company, title, desc  the text of the node, None when the node is absent *)
(*   skills   the texts of the spans of the skills section, None when absent *)
(*   detail   the texts of the li items of the detail list, None when absent *)
(*   posted   None: no "posted" node; Some(None): the node has no inner      *)
(*            span; Some(Some(t)): the text of the inner span                *)
(*   link     None: no hyperlink; Some(None): the first hyperlink has no     *)
(*            href; Some(Some(h)): its href                                  *)
(*   raises   an unexpected exception is raised while the fragment is read   *)

Fields == {"company", "job_title", "skills", "experience", "salary", "location",
           "job_description", "posted_date", "more_info"}

TextFields == Fields \ {"skills"}

MinDetailItems == 3

NodeText(node) == IF IsSome(node) THEN Strip(Get(node)) ELSE NA

DetailItemAlone(e, k) ==
    IF IsSome(e.detail) /\ Len(Get(e.detail)) >= k /\ Strip(Get(e.detail)[k]) # <<>>
    THEN Strip(Get(e.detail)[k])
    ELSE NA

\* li_elements[k - 1], kept only when the list has at least 3 items and the
\* trimmed text is not blank
DetailItem(e, k) ==
    IF IsSome(e.detail) /\ Len(Get(e.detail)) >= MinDetailItems
       /\ Strip(Get(e.detail)[k]) # <<>>
    THEN Strip(Get(e.detail)[k])
    ELSE NA

SkillsList(e) ==
    IF IsSome(e.skills) THEN [i \in DOMAIN Get(e.skills) |-> Strip(Get(e.skills)[i])]
    ELSE <<>>

Published(e) ==
    IF IsSome(e.posted) /\ IsSome(Get(e.posted)) THEN Strip(Get(Get(e.posted))) ELSE NA

MoreInfo(e) ==
    IF IsSome(e.link) /\ IsSome(Get(e.link)) /\ Get(Get(e.link)) # <<>>
    THEN Get(Get(e.link))
    ELSE NA

ExtractedRecord(e) ==
    [company         |-> NodeText(e.company),
     job_title       |-> NodeText(e.title),
     skills          |-> SkillsList(e),
     experience      |-> DetailItem(e, 2),
     salary          |-> DetailItem(e, 3),
     location        |-> DetailItem(e, 1),
     job_description |-> NodeText(e.desc),
     posted_date     |-> Published(e),
     more_info       |-> MoreInfo(e)]

\* a record whose fields after the company were never computed
PartialRecord(e) == Some([company |-> NodeText(e.company)])

PartialOnRaise(e) == IF e.raises THEN PartialRecord(e) ELSE Some(ExtractedRecord(e))

\* the record, or None when the extraction raised
extract_job_info(e) == IF e.raises THEN None ELSE Some(ExtractedRecord(e))

----------------------------------------------------------------------------
(* filter_jobs_by_skills *)

\* job_skills = [skill.lower() for skill in job.get('skills', [])]
JobSkillsLower(job) == [i \in DOMAIN job.skills |-> Lower(job.skills[i])]

\* unfamiliar_lower = [skill.lower().strip() for skill in unfamiliar_skills]
UnfamiliarLower(unfamiliar) == [i \in DOMAIN unfamiliar |-> Strip(Lower(unfamiliar[i]))]

HasUnfamiliarExact(job, unfamiliar) ==
    \E u \in DOMAIN unfamiliar : \E k \in DOMAIN job.skills :
        UnfamiliarLower(unfamiliar)[u] = JobSkillsLower(job)[k]

\* any(any(unfamiliar in job_skill for job_skill in job_skills) for unfamiliar in unfamiliar_lower)
HasUnfamiliar(job, unfamiliar) ==
    \E u \in DOMAIN unfamiliar : \E k \in DOMAIN job.skills :
        IsSubstr(UnfamiliarLower(unfamiliar)[u], JobSkillsLower(job)[k])

\* the loop over jobs: a job is appended when it has no unfamiliar skill
RECURSIVE FilterLoop(_, _, _)
FilterLoop(js, unfamiliar, acc) ==
    IF js = <<>> THEN acc
    ELSE FilterLoop(Tail(js), unfamiliar,
                    IF ~HasUnfamiliar(Head(js), unfamiliar) THEN Append(acc, Head(js)) ELSE acc)

filter_jobs_by_skills(js, unfamiliar) == FilterLoop(js, unfamiliar, <<>>)

----------------------------------------------------------------------------
(* Inputs of the modelled runs of scrape_jobs *)

Txt_Go == <<"G", "o">>
Txt_SQL == <<"S", "Q", "L">>
Txt_JavaScript == <<"J", "a", "v", "a", "S", "c", "r", "i", "p", "t">>
Txt_Acme == <<" ", "A", "c", "m", "e", " ">>

Listing(company, skills, raises) ==
    [company |-> Some(company), title |-> Some(<<"D", "e", "v">>), skills |-> skills,
     detail |-> None, posted |-> Some(None), link |-> Some(Some(<<"/", "j">>)),
     desc |-> None, raises |-> raises]

ListingGo == Listing(Txt_Acme, Some(<<Txt_Go, Txt_SQL>>), FALSE)
ListingJs == Listing(<<"B">>, Some(<<Txt_JavaScript>>), FALSE)
ListingRaising == Listing(<<"C">>, None, TRUE)

\* what a successfully fetched and parsed page may hold
PageBodies ==
    { <<>>,
      <<ListingGo>>,
      <<ListingRaising>>,
      <<ListingJs, ListingGo>>,
      <<ListingGo, ListingRaising, ListingJs>> }

ScrapeUnfamiliar == { <<>>, << <<" ", "J", "A", "V", "A", " ">> >> }

SleepSeconds == 2

\* an entry of the history
Ev(type, p, data, secs) == [ev |-> type, page |-> p, data |-> data, secs |-> secs]

----------------------------------------------------------------------------
(* scrape_jobs *)

HarnessIdle ==
    /\ jobs = <<>>
    /\ job_element = None
    /\ job_info = None
    /\ jobs_data = <<>>
    /\ df_data = <<>>
    /\ parsed = <<>>

Init ==
    /\ search_query = <<"python", " ", "developer">>
    /\ location = <<"pune">>
    /\ unfamiliar_skills \in ScrapeUnfamiliar
    /\ max_pages \in 0..MaxPages
    /\ page = 0
    /\ url = <<>>
    /\ job_elements = <<>>
    /\ idx = 0
    /\ page_jobs = <<>>
    /\ all_jobs = <<>>
    /\ filtered_jobs = <<>>
    /\ pc = "loop"
    /\ log = <<>>
    /\ HarnessIdle

\* range(1, max_pages + 1): is there a next page
HasNextPageOffByOne(p, mx) == p < mx + 1

HasNextPage(p, mx) == p < mx

\* for page in range(1, max_pages + 1): url = build_search_url(...)
LoopHead ==
    /\ pc = "loop"
    /\ IF HasNextPage(page, max_pages)
       THEN /\ page' = page + 1
            /\ url' = build_search_url(search_query, location, page + 1)
            /\ pc' = "fetch"
       ELSE /\ pc' = "filter"
            /\ UNCHANGED <<page, url>>
    /\ UNCHANGED <<search_query, location, unfamiliar_skills, max_pages, job_elements,
                   idx, page_jobs, all_jobs, jobs, filtered_jobs, job_element, job_info,
                   jobs_data, df_data, parsed, log>>

FetchUnchanged ==
    UNCHANGED <<search_query, location, unfamiliar_skills, max_pages, page, url,
                all_jobs, jobs, filtered_jobs, job_element, job_info,
                jobs_data, df_data, parsed>>

\* a request error that ends the pagination, as an empty page does
FetchRequestErrorBreaks ==
    /\ pc = "fetch"
    /\ log' = log \o <<Ev("fetch", page, <<>>, 0), Ev("request_error", page, <<>>, 0)>>
    /\ pc' = "filter"
    /\ UNCHANGED <<job_elements, idx, page_jobs>>
    /\ FetchUnchanged

\* session.get / raise_for_status raise a RequestException: continue
FetchRequestError ==
    /\ pc = "fetch"
    /\ log' = log \o <<Ev("fetch", page, <<>>, 0), Ev("request_error", page, <<>>, 0)>>
    /\ pc' = "loop"
    /\ UNCHANGED <<job_elements, idx, page_jobs>>
    /\ FetchUnchanged

\* the response arrives and parsing it raises: continue
FetchParseError ==
    /\ pc = "fetch"
    /\ log' = log \o <<Ev("fetch", page, <<>>, 0), Ev("parse_error", page, <<>>, 0)>>
    /\ pc' = "loop"
    /\ UNCHANGED <<job_elements, idx, page_jobs>>
    /\ FetchUnchanged

\* an empty page that is skipped like a failed one
FetchEmptyContinues ==
    /\ pc = "fetch"
    /\ log' = log \o <<Ev("fetch", page, <<>>, 0), Ev("empty", page, <<>>, 0)>>
    /\ job_elements' = <<>>
    /\ pc' = "loop"
    /\ UNCHANGED <<idx, page_jobs>>
    /\ FetchUnchanged

\* the page holds no listing: break
FetchEmpty ==
    /\ pc = "fetch"
    /\ log' = log \o <<Ev("fetch", page, <<>>, 0), Ev("empty", page, <<>>, 0)>>
    /\ job_elements' = <<>>
    /\ pc' = "filter"
    /\ UNCHANGED <<idx, page_jobs>>
    /\ FetchUnchanged

\* the page holds listings: page_jobs = [], the inner loop starts
FetchFound ==
    /\ pc = "fetch"
    /\ \E body \in PageBodies \ {<<>>} :
          /\ job_elements' = body
          /\ log' = log \o <<Ev("fetch", page, <<>>, 0), Ev("found", page, body, 0)>>
    /\ page_jobs' = <<>>
    /\ idx' = 1
    /\ pc' = "extract"
    /\ FetchUnchanged

\* if job_info: page_jobs.append(job_info)
AppendIfRecord(pj, info) == IF IsSome(info) THEN Append(pj, Get(info)) ELSE pj

\* one turn of: for job_element in job_elements
ExtractOne ==
    /\ pc = "extract"
    /\ idx <= Len(job_elements)
    /\ job_element' = job_elements[idx]
    /\ job_info' = extract_job_info(job_elements[idx])
    /\ page_jobs' = AppendIfRecord(page_jobs, extract_job_info(job_elements[idx]))
    /\ idx' = idx + 1
    /\ UNCHANGED <<search_query, location, unfamiliar_skills, max_pages, page, url,
                   job_elements, all_jobs, jobs, filtered_jobs, jobs_data, df_data,
                   parsed, pc, log>>

\* all_jobs.extend(page_jobs); time.sleep(2)
Pace ==
    /\ pc = "extract"
    /\ idx > Len(job_elements)
    /\ all_jobs' = all_jobs \o page_jobs
    /\ log' = log \o <<Ev("extend", page, page_jobs, 0), Ev("sleep", page, <<>>, SleepSeconds)>>
    /\ pc' = "loop"
    /\ UNCHANGED <<search_query, location, unfamiliar_skills, max_pages, page, url,
                   job_elements, idx, page_jobs, jobs, filtered_jobs, job_element,
                   job_info, jobs_data, df_data, parsed>>

\* filtered_jobs = filter_jobs_by_skills(all_jobs, unfamiliar_skills); return
ReturnFiltered ==
    /\ pc = "filter"
    /\ filtered_jobs' = filter_jobs_by_skills(all_jobs, unfamiliar_skills)
    /\ pc' = "done"
    /\ UNCHANGED <<search_query, location, unfamiliar_skills, max_pages, page, url,
                   job_elements, idx, page_jobs, all_jobs, jobs, job_element, job_info,
                   jobs_data, df_data, parsed, log>>

Next ==
    \/ LoopHead
    \/ FetchRequestError
    \/ FetchParseError
    \/ FetchEmpty
    \/ FetchFound
    \/ ExtractOne
    \/ Pace
    \/ ReturnFiltered

Spec == Init /\ [][Next]_vars

\* one flow of control that runs to its end: every request ends within its
\* timeout, every loop is over a finite range
FairSpec == Spec /\ WF_vars(Next)

----------------------------------------------------------------------------
(* Reading the history *)

EventsOf(type) == SelectSeq(log, LAMBDA e : e.ev = type)

\* the page numbers requested, in the order of the requests
FetchedPages == [k \in DOMAIN EventsOf("fetch") |-> EventsOf("fetch")[k].page]

RECURSIVE ConcatData(_)
ConcatData(evs) == IF evs = <<>> THEN <<>> ELSE Head(evs).data \o ConcatData(Tail(evs))

\* the records appended to the accumulator for the pages before page n
RecordsBefore(n) == ConcatData(SelectSeq(log, LAMBDA e : e.ev = "extend" /\ e.page < n))

\* a record is excluded: some unfamiliar skill, lower-cased and trimmed, is a
\* substring of one of its lower-cased skill tokens
Excluded(job, unfamiliar) ==
    \E u \in DOMAIN unfamiliar : \E k \in DOMAIN job.skills :
        IsSubstr(Strip(Lower(unfamiliar[u])), Lower(job.skills[k]))

Survivors(js, unfamiliar) == SelectSeq(js, LAMBDA j : ~Excluded(j, unfamiliar))

ScrapeRun == pc \in {"loop", "fetch", "extract", "filter", "done"}

----------------------------------------------------------------------------
(* C1 *)

NoFetchAfterEmpty ==
    \A i \in DOMAIN log : log[i].ev = "empty" =>
        /\ \A j \in DOMAIN log : log[j].ev = "fetch" => j < i /\ log[j].page <= log[i].page
        /\ pc \in {"filter", "done"}

\* C1 as stated: once page N is fetched and holds no listing, no page after N
\* is requested and the run returns exactly the records accumulated from the
\* pages before N.
C1_ReturnsAccumulated ==
    ScrapeRun =>
        /\ NoFetchAfterEmpty
        /\ \A i \in DOMAIN log : log[i].ev = "empty" /\ pc = "done" =>
              filtered_jobs = RecordsBefore(log[i].page)

\* C1, amended: once page N is fetched and holds no listing, no page after N
\* is requested and the run returns the records accumulated from the pages
\* before N that pass the skill filter, in order (all of them when
\* unfamiliar_skills is empty).
C1_ReturnsFilteredAccumulated ==
    ScrapeRun =>
        /\ NoFetchAfterEmpty
        /\ \A i \in DOMAIN log : log[i].ev = "empty" /\ pc = "done" =>
              /\ filtered_jobs = Survivors(RecordsBefore(log[i].page), unfamiliar_skills)
              /\ unfamiliar_skills = <<>> => filtered_jobs = RecordsBefore(log[i].page)

C1_Witness ==
    /\ pc = "done"
    /\ \E i \in DOMAIN log : log[i].ev = "empty" /\ 1 < log[i].page /\ log[i].page < max_pages
    /\ filtered_jobs # <<>>
    /\ Len(filtered_jobs) < Len(all_jobs)

----------------------------------------------------------------------------
(* C2 *)

\* C2: a request error on page N < max_pages does not end the pagination: the
\* next request is the one for page N + 1, and the accumulator holds the
\* records of every page processed before and after it.
C2_ErrorDoesNotStop ==
    ScrapeRun =>
        /\ all_jobs = ConcatData(EventsOf("extend"))
        /\ \A i \in DOMAIN log :
              log[i].ev = "request_error" /\ log[i].page < max_pages =>
                 IF i < Len(log)
                 THEN log[i + 1].ev = "fetch" /\ log[i + 1].page = log[i].page + 1
                 ELSE \/ pc = "loop" /\ page = log[i].page
                      \/ pc = "fetch" /\ page = log[i].page + 1

C2_Witness ==
    /\ pc = "done"
    /\ \E i \in DOMAIN log :
          /\ log[i].ev = "request_error"
          /\ RecordsBefore(log[i].page) # <<>>
          /\ Len(RecordsBefore(log[i].page)) < Len(all_jobs)
          /\ filtered_jobs = all_jobs

----------------------------------------------------------------------------
(* C3 *)

FetchesInOrder ==
    /\ Len(FetchedPages) <= max_pages
    /\ \A k \in DOMAIN FetchedPages : FetchedPages[k] = k

\* C3: every run reaches its end and returns a list, having requested at most
\* max_pages pages, each once, in the order 1, 2, 3, ...
C3_Terminates == [](ScrapeRun => FetchesInOrder) /\ <>(pc = "done")

C3_Witness ==
    /\ pc = "done"
    /\ max_pages = MaxPages
    /\ Len(FetchedPages) = max_pages
    /\ EventsOf("request_error") # <<>>
    /\ EventsOf("parse_error") # <<>>
    /\ all_jobs # <<>>

----------------------------------------------------------------------------
(* C4 *)

\* C4: between any two successive requests of a run there is a pacing wait of
\* 2 time units, whatever the outcome of the earlier request.
C4_PacedBetweenFetches ==
    ScrapeRun =>
        \A i, j \in DOMAIN log :
            i < j /\ log[i].ev = "fetch" /\ log[j].ev = "fetch" =>
                \E k \in (i + 1)..(j - 1) : log[k].ev = "sleep" /\ log[k].secs = 2

----------------------------------------------------------------------------
(* C6 *)

\* the records of the fragments of frags whose extraction does not raise
RecordsOfSound(frags) ==
    LET sound == SelectSeq(frags, LAMBDA f : ~f.raises)
    IN  [k \in DOMAIN sound |-> ExtractedRecord(sound[k])]

\* C6: a fragment whose extraction fails is dropped alone: the records
\* appended for a page are those of its other fragments, in fragment order,
\* each with all nine fields, and the remaining fragments are still processed.
C6_FailureDropsOneFragment ==
    ScrapeRun =>
        /\ pc = "extract" => page_jobs = RecordsOfSound(SubSeq(job_elements, 1, idx - 1))
        /\ \A i \in DOMAIN log : log[i].ev = "extend" =>
              /\ log[i - 1].ev = "found"
              /\ log[i].data = RecordsOfSound(log[i - 1].data)
              /\ \A k \in DOMAIN log[i].data : DOMAIN log[i].data[k] = Fields

C6_Witness ==
    \E i \in DOMAIN log :
        /\ log[i].ev = "extend"
        /\ log[i - 1].data = <<ListingGo, ListingRaising, ListingJs>>
        /\ Len(log[i].data) = 2
        /\ pc = "done"

----------------------------------------------------------------------------
(* build_search_url applied to drawn inputs *)

ScrapeIdle ==
    /\ max_pages = 0
    /\ job_elements = <<>>
    /\ idx = 0
    /\ page_jobs = <<>>
    /\ all_jobs = <<>>
    /\ log = <<>>

QueryLexemes == {"sequence", "=", "1", "txtLocation", " "}

UrlLocations ==
    { <<>>, <<"pune">>, <<"new", " ", "delhi">>, <<"x", "&", "txtLocation", "=", "y">> }

\* the largest page count the dashboard offers
PageLimit == 10

InitUrl ==
    /\ search_query \in SeqsUpTo(QueryLexemes, MaxText)
    /\ location \in UrlLocations
    /\ page \in (1..MaxPages) \cup {PageLimit}
    /\ url = <<>>
    /\ unfamiliar_skills = <<>>
    /\ filtered_jobs = <<>>
    /\ pc = "url_call"
    /\ ScrapeIdle
    /\ HarnessIdle

CallBuildUrl ==
    /\ pc = "url_call"
    /\ url' = build_search_url(search_query, location, page)
    /\ pc' = "url_done"
    /\ UNCHANGED <<search_query, location, page, scrapeVars, filterVars, extractVars,
                   exportVars>>

NextUrl == CallBuildUrl

SpecUrl == InitUrl /\ [][NextUrl]_vars

(* C7 *)

SequenceParam == <<"sequence", "=">> \o IntToStr(page)

\* C7 as stated: the URL contains sequence=<page> exactly once and contains
\* txtLocation if and only if location is not empty, whatever the texts.
C7_TxtLocationIffLocation ==
    pc = "url_done" =>
        /\ Occurrences(SequenceParam, url) = 1
        /\ IsSubstr(<<"txtLocation">>, url) <=> location # <<>>

\* C7, amended: the URL contains sequence=<page> exactly once and contains
\* the parameter txtLocation= (the name followed by the equals sign) if and
\* only if location is not empty; the bare text txtLocation also occurs when
\* the query text holds it.
C7_LocationParamIffLocation ==
    pc = "url_done" =>
        /\ Occurrences(SequenceParam, url) = 1
        /\ IsSubstr(<<"txtLocation", "=">>, url) <=> location # <<>>
        /\ IsSubstr(<<"txtLocation">>, search_query) => IsSubstr(<<"txtLocation">>, url)

C7_Witness ==
    /\ pc = "url_done"
    /\ search_query = <<"sequence", "=", "1">>
    /\ page = 1
    /\ location = <<"x", "&", "txtLocation", "=", "y">>
    /\ IsSubstr(<<"&", "txtLocation", "=", "x", "%26", "txtLocation", "%3D", "y">>, url)

----------------------------------------------------------------------------
(* extract_job_info applied to drawn fragments *)

NodeTexts == { <<" ", "\t">>, <<" ", "G", "o", "\n">> }

ItemTexts == { <<"\n", " ">>, <<"\n", "2", " ">> }

HrefTexts == { <<>>, <<"/", "j">> }

SkillSections == { None, Some(<<>>), Some(<< <<" ", "G", "o">>, <<>> >>),
                   Some(<<Txt_Go, Txt_SQL, Txt_Go>>) }

Fragments ==
    [company : Opt(NodeTexts), title : Opt(NodeTexts), skills : SkillSections,
     detail : Opt(SeqsUpTo(ItemTexts, MaxItems)), posted : Opt(Opt(NodeTexts)),
     link : Opt(Opt(HrefTexts)), desc : Opt(NodeTexts), raises : BOOLEAN]

InitExtract ==
    /\ job_element \in Fragments
    /\ job_info = None
    /\ pc = "extract_call"
    /\ search_query = <<>>
    /\ location = <<>>
    /\ page = 0
    /\ url = <<>>
    /\ unfamiliar_skills = <<>>
    /\ jobs = <<>>
    /\ filtered_jobs = <<>>
    /\ jobs_data = <<>>
    /\ df_data = <<>>
    /\ parsed = <<>>
    /\ ScrapeIdle

CallExtract ==
    /\ pc = "extract_call"
    /\ job_info' = extract_job_info(job_element)
    /\ pc' = "extract_done"
    /\ UNCHANGED <<job_element, urlVars, scrapeVars, filterVars, exportVars>>

NextExtract == CallExtract

SpecExtract == InitExtract /\ [][NextExtract]_vars

(* C8 *)

Extracted == pc = "extract_done" /\ ~job_element.raises

HasItem(e, k) == IsSome(e.detail) /\ Len(Get(e.detail)) >= k

HasText(e, k) == HasItem(e, k) /\ Strip(Get(e.detail)[k]) # <<>>

HasHref(e) == IsSome(e.link) /\ IsSome(Get(e.link)) /\ Get(Get(e.link)) # <<>>

HasPosted(e) == IsSome(e.posted) /\ IsSome(Get(e.posted))

\* what C8 says of the fields other than experience, salary and location
OtherFieldsDefaulted(e, r) ==
    /\ DOMAIN r = Fields
    /\ r.company = (IF IsSome(e.company) THEN Strip(Get(e.company)) ELSE NA)
    /\ r.job_title = (IF IsSome(e.title) THEN Strip(Get(e.title)) ELSE NA)
    /\ r.job_description = (IF IsSome(e.desc) THEN Strip(Get(e.desc)) ELSE NA)
    /\ r.posted_date = (IF HasPosted(e) THEN Strip(Get(Get(e.posted))) ELSE NA)
    /\ r.more_info = (IF HasHref(e) THEN Get(Get(e.link)) ELSE NA)
    /\ IF IsSome(e.skills)
       THEN /\ Len(r.skills) = Len(Get(e.skills))
            /\ \A i \in DOMAIN r.skills : r.skills[i] = Strip(Get(e.skills)[i])
       ELSE r.skills = <<>>

\* C8 as stated: every fragment yields a record with all nine fields; a
\* field whose markup is missing holds the sentinel (skills: the empty
\* sequence); a field whose markup is present keeps its extracted value
\* whichever other fields are missing.
C8_EachFieldAlone ==
    Extracted =>
        /\ IsSome(job_info)
        /\ OtherFieldsDefaulted(job_element, Get(job_info))
        /\ ~HasItem(job_element, 1) => Get(job_info).location = NA
        /\ ~HasItem(job_element, 2) => Get(job_info).experience = NA
        /\ ~HasItem(job_element, 3) => Get(job_info).salary = NA
        /\ HasText(job_element, 1) => Get(job_info).location = Strip(Get(job_element.detail)[1])
        /\ HasText(job_element, 2) => Get(job_info).experience = Strip(Get(job_element.detail)[2])
        /\ HasText(job_element, 3) => Get(job_info).salary = Strip(Get(job_element.detail)[3])

\* C8, amended: every fragment yields a record with all nine fields; a field
\* whose markup is missing holds the sentinel (skills: the empty sequence); a
\* field whose markup is present keeps its extracted value whichever other
\* fields are missing, except that location, experience and salary are read
\* only from a detail list of at least 3 items: with fewer items all three
\* hold the sentinel, also those whose item is present.
C8_DetailFieldsTogether ==
    Extracted =>
        /\ IsSome(job_info)
        /\ OtherFieldsDefaulted(job_element, Get(job_info))
        /\ ~HasItem(job_element, 3) =>
              /\ Get(job_info).location = NA
              /\ Get(job_info).experience = NA
              /\ Get(job_info).salary = NA
        /\ HasItem(job_element, 3) /\ HasText(job_element, 1) =>
              Get(job_info).location = Strip(Get(job_element.detail)[1])
        /\ HasItem(job_element, 3) /\ HasText(job_element, 2) =>
              Get(job_info).experience = Strip(Get(job_element.detail)[2])
        /\ HasItem(job_element, 3) /\ HasText(job_element, 3) =>
              Get(job_info).salary = Strip(Get(job_element.detail)[3])

C8_Witness ==
    /\ Extracted
    /\ job_element.company = None
    /\ job_element.skills = None
    /\ job_element.link = None
    /\ IsSome(job_element.title)
    /\ HasItem(job_element, 2) /\ ~HasItem(job_element, 3) /\ HasText(job_element, 1)
    /\ Get(job_info).location = NA
    /\ Get(job_info).job_title = <<"G", "o">>

(* C9 *)

IsBlank(node) == IsSome(node) /\ Strip(Get(node)) = <<>>

\* C9: a text field whose markup is present with a blank text holds the
\* sentinel, so no text field of an emitted record is the empty string.
C9_BlankGetsSentinel ==
    Extracted =>
        /\ \A f \in TextFields : Get(job_info)[f] # <<>>
        /\ IsBlank(job_element.company) => Get(job_info).company = NA
        /\ IsBlank(job_element.title) => Get(job_info).job_title = NA
        /\ IsBlank(job_element.desc) => Get(job_info).job_description = NA
        /\ HasPosted(job_element) /\ IsBlank(Get(job_element.posted)) =>
              Get(job_info).posted_date = NA
        /\ HasItem(job_element, 1) /\ ~HasText(job_element, 1) => Get(job_info).location = NA
        /\ HasItem(job_element, 2) /\ ~HasText(job_element, 2) => Get(job_info).experience = NA
        /\ HasItem(job_element, 3) /\ ~HasText(job_element, 3) => Get(job_info).salary = NA
        /\ IsSome(job_element.link) /\ ~HasHref(job_element) => Get(job_info).more_info = NA

----------------------------------------------------------------------------
(* filter_jobs_by_skills applied to drawn inputs, and within scrape_jobs *)

JobWith(company, skills) ==
    [company |-> company, job_title |-> <<"D", "e", "v">>, skills |-> skills,
     experience |-> NA, salary |-> NA, location |-> NA, job_description |-> NA,
     posted_date |-> NA, more_info |-> NA]

FilterJobs ==
    { JobWith(<<"A">>, <<Txt_Go, Txt_SQL>>),
      JobWith(<<"B">>, <<Txt_JavaScript>>),
      JobWith(<<"C">>, <<>>),
      JobWith(<<"D">>, << <<"j", "a", "v", "a">>, <<"G", "O">> >>) }

UnfamiliarPool ==
    { <<" ", "J", "A", "V", "A", " ">>, <<"g", "o">>, <<"J", "a", "v", "a", "S">>, <<" ">> }

InitFilter ==
    /\ jobs \in SeqsUpTo(FilterJobs, MaxList)
    /\ unfamiliar_skills \in SeqsUpTo(UnfamiliarPool, MaxList)
    /\ filtered_jobs = <<>>
    /\ pc = "filter_call"
    /\ search_query = <<>>
    /\ location = <<>>
    /\ page = 0
    /\ url = <<>>
    /\ job_element = None
    /\ job_info = None
    /\ jobs_data = <<>>
    /\ df_data = <<>>
    /\ parsed = <<>>
    /\ ScrapeIdle

CallFilter ==
    /\ pc = "filter_call"
    /\ filtered_jobs' = filter_jobs_by_skills(jobs, unfamiliar_skills)
    /\ pc' = "filter_done"
    /\ UNCHANGED <<unfamiliar_skills, jobs, urlVars, scrapeVars, extractVars, exportVars>>

NextFilter == CallFilter \/ Next

SpecFilter == (InitFilter \/ Init) /\ [][NextFilter]_vars

(* C5 *)

\* C5: the filter returns the input records, unmodified and in input order,
\* that have no skill token containing an unfamiliar skill (lower-cased and
\* trimmed; tokens lower-cased); an empty unfamiliar list returns the input;
\* scrape_jobs returns this filter of its accumulator.
C5_FilterKeepsSurvivors ==
    /\ pc = "filter_done" =>
          /\ filtered_jobs = Survivors(jobs, unfamiliar_skills)
          /\ unfamiliar_skills = <<>> => filtered_jobs = jobs
    /\ pc = "done" =>
          /\ filtered_jobs = Survivors(all_jobs, unfamiliar_skills)
          /\ unfamiliar_skills = <<>> => filtered_jobs = all_jobs

C5_Witness ==
    /\ pc = "filter_done"
    /\ jobs = <<JobWith(<<"B">>, <<Txt_JavaScript>>), JobWith(<<"A">>, <<Txt_Go, Txt_SQL>>)>>
    /\ unfamiliar_skills = << <<" ", "J", "A", "V", "A", " ">> >>
    /\ filtered_jobs = <<JobWith(<<"A">>, <<Txt_Go, Txt_SQL>>)>>

----------------------------------------------------------------------------
(* The export tab: rows written from jobs_data, and read back *)

Separator == <<",", " ">>

RECURSIVE JoinWith(_, _)
JoinWith(ts, sep) ==
    IF ts = <<>> THEN <<>>
    ELSE IF Len(ts) = 1 THEN ts[1]
    ELSE ts[1] \o sep \o JoinWith(Tail(ts), sep)

JoinCommaOnly(skills) == JoinWith(skills, <<",">>)

\* ', '.join(job['skills'])
JoinSkills(skills) == JoinWith(skills, Separator)

\* one export row
Row(job) ==
    ("Job Title" :> job.job_title) @@ ("Company" :> job.company)
    @@ ("Skills" :> JoinSkills(job.skills)) @@ ("Experience" :> job.experience)
    @@ ("Location" :> job.location) @@ ("Salary" :> job.salary)
    @@ ("Posted Date" :> job.posted_date) @@ ("Job Description" :> job.job_description)
    @@ ("More Info" :> job.more_info)

\* str.split(sep): the pieces between the occurrences of sep, found from the
\* left; the empty text gives one empty piece
RECURSIVE SplitOn(_, _)
SplitOn(t, sep) ==
    IF ~IsSubstr(sep, t) THEN <<t>>
    ELSE LET i == CHOOSE k \in 1..Len(t) :
                      /\ SubSeq(t, k, k + Len(sep) - 1) = sep
                      /\ \A m \in 1..(k - 1) : SubSeq(t, m, m + Len(sep) - 1) # sep
         IN  <<SubSeq(t, 1, i - 1)>> \o SplitOn(SubSeq(t, i + Len(sep), Len(t)), sep)

\* a row read back: Skills split on the separator of the join
ParseRow(row) ==
    [company |-> row["Company"], job_title |-> row["Job Title"],
     skills |-> SplitOn(row["Skills"], Separator),
     experience |-> row["Experience"], salary |-> row["Salary"],
     location |-> row["Location"], job_description |-> row["Job Description"],
     posted_date |-> row["Posted Date"], more_info |-> row["More Info"]]

ExportTokens == { Txt_Go, <<"a", ",", "b">>, <<"a", ",", " ", "b">>, <<>> }

ExportJobs == { JobWith(<<"A">>, sk) : sk \in SeqsUpTo(ExportTokens, MaxList) }

\* the export tab is shown only when jobs_data is not empty
InitExport ==
    /\ jobs_data \in {<<j>> : j \in ExportJobs}
                     \cup {<<j, JobWith(<<"B">>, <<Txt_Go, Txt_SQL>>)>> : j \in ExportJobs}
                     \cup {<<JobWith(<<"C">>, <<>>), j>> : j \in ExportJobs}
    /\ df_data = <<>>
    /\ parsed = <<>>
    /\ pc = "export_call"
    /\ search_query = <<>>
    /\ location = <<>>
    /\ page = 0
    /\ url = <<>>
    /\ unfamiliar_skills = <<>>
    /\ jobs = <<>>
    /\ filtered_jobs = <<>>
    /\ job_element = None
    /\ job_info = None
    /\ ScrapeIdle

\* for job in st.session_state.jobs_data: df_data.append({...})
ExportRows ==
    /\ pc = "export_call"
    /\ df_data' = [i \in DOMAIN jobs_data |-> Row(jobs_data[i])]
    /\ pc' = "exported"
    /\ UNCHANGED <<jobs_data, parsed, urlVars, scrapeVars, filterVars, extractVars>>

ReadBack ==
    /\ pc = "exported"
    /\ parsed' = [i \in DOMAIN df_data |-> ParseRow(df_data[i])]
    /\ pc' = "parsed"
    /\ UNCHANGED <<jobs_data, df_data, urlVars, scrapeVars, filterVars, extractVars>>

NextExport == ExportRows \/ ReadBack

SpecExport == InitExport /\ [][NextExport]_vars

(* C10 *)

\* C10 as stated: exporting any sequence of records and reading the rows back
\* gives equal records, for every skills sequence, the empty one and tokens
\* holding a comma included.
C10_RoundTrip == pc = "parsed" => parsed = jobs_data

SplitsBack(skills) ==
    skills # <<>> /\ \A k \in DOMAIN skills : ~IsSubstr(Separator, skills[k])

\* C10, amended: exporting any sequence of records and reading the rows back
\* gives records equal in every field but skills; skills is equal too, order
\* kept, when it is not empty and no token holds the separator ", " (a token
\* holding a comma not followed by a space is kept).  The empty skills
\* sequence reads back as one empty token.
C10_RoundTripOfSplittable ==
    pc = "parsed" =>
        /\ Len(parsed) = Len(jobs_data)
        /\ \A i \in DOMAIN jobs_data :
              /\ \A f \in TextFields : parsed[i][f] = jobs_data[i][f]
              /\ SplitsBack(jobs_data[i].skills) => parsed[i] = jobs_data[i]
              /\ jobs_data[i].skills = <<>> => parsed[i].skills = << <<>> >>

C10_Witness ==
    /\ pc = "parsed"
    /\ Len(jobs_data) = 2
    /\ jobs_data[1].skills = << <<"a", ",", "b">>, Txt_Go >>
    /\ parsed = jobs_data

====
